---------------------------- MODULE Spec2Model ----------------------------
(***************************************************************************)
(* Feedback submission engine of ruggable-feedback.                        *)
(*                                                                         *)
(*   FeedbackForm        (src/unnamed/part_001)                            *)
(*   VoiceTextQuestion   (src/src/components/questions/VoiceTextQuestion)  *)
(*   Campaign types      (src/src/types/campaign.ts)                       *)
(*                                                                         *)
(* Every action is one React event handler (or one continuation of the     *)
(* async handleSubmit), run to completion with its state updates           *)
(* committed: the browser runs one callback at a time and React flushes    *)
(* the updates of a discrete event before the next event is dispatched.    *)
(* A handler reads the state of the render it was created in, which is     *)
(* the unprimed state of its action.                                       *)
(***************************************************************************)
EXTENDS Integers, Sequences, FiniteSets, TLC

(***************************************************************************)
(* Bounds of the model.                                                    *)
(***************************************************************************)
\* recordings the audio collaborator may finalize in one behaviour
MaxBlobs == 2
\* requests handleSubmit may issue in one behaviour
MaxCalls == 2
\* fetchDashboardData calls of the mount effect and the interval that may
\* await their response at once
MaxPending == 2

(***************************************************************************)
(* JavaScript values, tagged by type, and their truthiness.                *)
(***************************************************************************)
JsNull == [t |-> "null"]
JsUndef == [t |-> "undefined"]
Num(n) == [t |-> "number", v |-> n]
Str(s) == [t |-> "string", v |-> s]
Bool(b) == [t |-> "boolean", v |-> b]
Blob(i) == [t |-> "blob", v |-> i]

\* what `!x` negates: null, undefined, 0, "" and false are falsy
Truthy(x) ==
    CASE x.t = "null" -> FALSE
      [] x.t = "undefined" -> FALSE
      [] x.t = "number" -> x.v # 0
      [] x.t = "string" -> x.v # ""
      [] x.t = "boolean" -> x.v
      [] OTHER -> TRUE

(***************************************************************************)
(* Campaign schemas (types/campaign.ts) and the props of the form.         *)
(***************************************************************************)
QuestionType == {"nps", "text", "rating", "multiple_choice", "yes_no"}

\* the question types FeedbackForm has a renderer for
RenderedTypes == {"text", "rating", "multiple_choice", "yes_no"}

NoScale == [min |-> 0, max |-> 0]

Question(id, type, required, options, scale) ==
    [id |-> id, type |-> type, required |-> required,
     options |-> options, scale |-> scale]

QIds == {"q1", "q2"}

\* one question of every type, required or not, under id q1
SingleQuestions ==
    { Question("q1", ty, r, IF ty = "multiple_choice" THEN <<"A", "B">> ELSE <<>>,
               IF ty = "rating" THEN [min |-> 1, max |-> 2] ELSE NoScale) :
        ty \in QuestionType, r \in BOOLEAN }
    \cup { Question("q1", "rating", TRUE, <<>>, [min |-> 0, max |-> 1]) }

QuestionLists ==
    { <<>> }
    \cup { <<q>> : q \in SingleQuestions }
    \cup { << Question("q1", "multiple_choice", TRUE, <<"A", "B">>, NoScale),
              Question("q2", "yes_no", FALSE, <<>>, NoScale) >>,
           << Question("q1", "text", TRUE, <<>>, NoScale),
              Question("q2", "yes_no", TRUE, <<>>, NoScale) >> }

Settings(voice, text, order) ==
    [allowVoice |-> voice, allowText |-> text, requireOrderId |-> order]

Campaign(nps, additional, qs, settings) ==
    [include_nps |-> nps, include_additional_questions |-> additional,
     questions |-> qs, settings |-> settings]

\* schemas without a free-form feedback section: every validation flag and
\* question list
GateCampaigns ==
    { Campaign(nps, add, qs, Settings(FALSE, FALSE, ord)) :
        nps \in BOOLEAN, add \in BOOLEAN, qs \in QuestionLists, ord \in BOOLEAN }

\* schemas with a free-form feedback section: every channel setting
CaptureCampaigns ==
    { Campaign(nps, FALSE, <<>>, Settings(voice, text, FALSE)) :
        nps \in BOOLEAN, voice \in BOOLEAN, text \in BOOLEAN }

\* the schema of the specification's scenario: NPS, one required
\* multiple-choice question, both channels, order id required
ScenarioCampaign ==
    Campaign(TRUE, TRUE,
             << Question("q1", "multiple_choice", TRUE, <<"A", "B">>, NoScale) >>,
             Settings(TRUE, TRUE, TRUE))

\* campaignData: Campaign | null
Campaigns ==
    GateCampaigns \cup CaptureCampaigns \cup {ScenarioCampaign, JsNull}

OrderIds == {"", "ORD-1"}
CampaignIds == {JsUndef, Str("camp-1")}
companyId == "acme"
TextValues == {"", "Great!"}
NpsButtons == {1, 9, 10}

VARIABLES
    \* props of FeedbackForm
    campaignData, orderId, campaignId,
    \* useState of FeedbackForm
    npsScore, audioBlob, textFeedback, feedbackType, questionResponses,
    isSubmitting, submitted, error, consent, showOrderInput, localOrderId,
    \* the AudioRecorder mounted by FeedbackForm
    recState, recResult, nextBlob,
    \* the save-feedback endpoint: unresolved requests, requests issued so
    \* far, and the payload of the latest request (forgotten once the user
    \* edits the session again)
    inFlight, netCalls, sentPayload,
    \* history: the last value handed to handleQuestionResponse, per question
    lastWrite,
    \* props of VoiceTextQuestion: question, and the text its owner holds
    question, textValue,
    \* useState and refs of VoiceTextQuestion (its audioBlob is qAudioBlob)
    responseType, qAudioBlob, isRecording, isPlaying, audioPlayerRef,
    \* the AudioRecorder mounted by VoiceTextQuestion
    qRecState, qRecResult, qNextBlob,
    \* the voice value the owner holds (set by onVoiceRecording)
    ownerVoice,
    \* history: the callbacks the latest VoiceTextQuestion event made to
    \* the owner, in order, and the handler that ran
    ownerCalls, lastEvent,
    \* useState of DashboardPage (its error is dashError)
    data, loading, dashError, analysisRunning,
    \* DashboardPage: fetchDashboardData calls of the mount effect and of the
    \* interval that await their response, and where runAnalysis stands
    pendingFetches, analysisPhase,
    \* history: how the latest fetchDashboardData call ended, and the latest
    \* alert of runAnalysis
    lastSettled, lastAlert

propVars == <<campaignData, orderId, campaignId>>
sessionVars == <<npsScore, audioBlob, textFeedback, feedbackType,
                 questionResponses, consent, showOrderInput, localOrderId>>
submitVars == <<isSubmitting, submitted, error>>
recVars == <<recState, recResult, nextBlob>>
netVars == <<inFlight, netCalls, sentPayload>>
formVars == <<propVars, sessionVars, submitVars, recVars, netVars, lastWrite>>
vtqVars == <<question, textValue, responseType, qAudioBlob, isRecording,
             isPlaying, audioPlayerRef, qRecState, qRecResult, qNextBlob,
             ownerVoice, ownerCalls, lastEvent>>
dashVars == <<data, loading, dashError, analysisRunning, pendingFetches,
              analysisPhase, lastSettled, lastAlert>>
vars == <<formVars, vtqVars, dashVars>>

(***************************************************************************)
(* Optional-chained reads of campaignData.                                 *)
(***************************************************************************)
HasCampaign == campaignData # JsNull
IncludeNps == HasCampaign /\ campaignData.include_nps
IncludeAdditionalQuestions ==
    HasCampaign /\ campaignData.include_additional_questions
AllowVoice == HasCampaign /\ campaignData.settings.allowVoice
AllowText == HasCampaign /\ campaignData.settings.allowText
RequireOrderId == HasCampaign /\ campaignData.settings.requireOrderId
Questions == IF HasCampaign THEN campaignData.questions ELSE <<>>
QuestionSet == { Questions[i] : i \in 1..Len(Questions) }

NoPayload == [t |-> "none"]

(***************************************************************************)
(* FeedbackForm: construction.                                             *)
(***************************************************************************)
InitForm ==
    /\ campaignData \in Campaigns
    /\ orderId \in OrderIds
    /\ campaignId \in CampaignIds
    /\ npsScore = JsNull
    /\ audioBlob = JsNull
    /\ textFeedback = ""
    /\ feedbackType = (IF AllowVoice THEN "voice" ELSE "text")
    /\ questionResponses = [q \in QIds |-> JsUndef]
    /\ isSubmitting = FALSE
    /\ submitted = FALSE
    /\ error = JsNull
    /\ consent = FALSE
    /\ showOrderInput = ~Truthy(Str(orderId))
    /\ localOrderId = orderId
    /\ recState = "idle"
    /\ recResult = JsNull
    /\ nextBlob = 0
    /\ inFlight = 0
    /\ netCalls = 0
    /\ sentPayload = NoPayload
    /\ lastWrite = [q \in QIds |-> JsUndef]

(***************************************************************************)
(* What FeedbackForm renders: a control that is not rendered receives no   *)
(* event.                                                                  *)
(***************************************************************************)
\* the form without its early return for `submitted`
FormRenderedAfterSubmitted == TRUE

\* `if (submitted) return <Thank You>`: the form is replaced for good
FormRendered == ~submitted
OrderInputRendered == FormRendered /\ showOrderInput /\ RequireOrderId
NpsRendered == FormRendered /\ IncludeNps
QuestionsRendered ==
    FormRendered /\ IncludeAdditionalQuestions /\ Len(Questions) > 0
TabsRendered == FormRendered /\ AllowVoice /\ AllowText
\* the AudioRecorder element (audioRecorderRef.current is set exactly then)
RecorderMountedIn(rendered, type) == rendered /\ type = "voice" /\ AllowVoice
RecorderMounted == RecorderMountedIn(FormRendered, feedbackType)
TextareaRendered == FormRendered /\ ~RecorderMounted /\ AllowText
\* the submit button without its `disabled` attribute
SubmitEnabledWhileSubmitting == FormRendered

\* `disabled={isSubmitting}` on the submit button
SubmitEnabled == FormRendered /\ ~isSubmitting

(***************************************************************************)
(* Question renderers (QuestionTypes): the values a rendered question      *)
(* passes to onChange.                                                     *)
(***************************************************************************)
EmittedValues(q) ==
    CASE q.type = "text" -> { Str(s) : s \in {"", "ok"} }
      [] q.type = "rating" -> { Num(n) : n \in q.scale.min .. q.scale.max }
      [] q.type = "multiple_choice" ->
            { Str(q.options[i]) : i \in 1..Len(q.options) }
      [] q.type = "yes_no" -> { Bool(b) : b \in BOOLEAN }
      [] OTHER -> {}

\* the dispatch of lines 197-224: one renderer per known type, none otherwise
RenderedValues(q) == IF q.type \in RenderedTypes THEN EmittedValues(q) ELSE {}

(***************************************************************************)
(* Field handlers.                                                         *)
(***************************************************************************)
\* the update without its spread of prev: ({[questionId]: value})
MergedWithoutSpread(prev, questionId, value) ==
    [k \in QIds |-> IF k = questionId THEN value ELSE JsUndef]

\* setQuestionResponses(prev => ({...prev, [questionId]: value}))
Merged(prev, questionId, value) == [prev EXCEPT ![questionId] = value]

handleQuestionResponse(questionId, value) ==
    /\ questionResponses' = Merged(questionResponses, questionId, value)
    /\ lastWrite' = [lastWrite EXCEPT ![questionId] = value]
    /\ sentPayload' = NoPayload
    /\ UNCHANGED <<dashVars, vtqVars, propVars, npsScore, audioBlob, textFeedback,
                   feedbackType, consent, showOrderInput, localOrderId, submitVars, recVars,
                   inFlight, netCalls>>

AnswerQuestion ==
    /\ QuestionsRendered
    /\ \E q \in QuestionSet : \E v \in RenderedValues(q) :
          handleQuestionResponse(q.id, v)

setNpsScore ==
    /\ NpsRendered
    /\ \E score \in NpsButtons : npsScore' = Num(score)
    /\ sentPayload' = NoPayload
    /\ UNCHANGED <<dashVars, vtqVars, lastWrite, propVars, audioBlob, textFeedback, feedbackType,
                   questionResponses, consent, showOrderInput, localOrderId,
                   submitVars, recVars, inFlight, netCalls>>

setLocalOrderId ==
    /\ OrderInputRendered
    /\ \E v \in OrderIds : localOrderId' = v
    /\ sentPayload' = NoPayload
    /\ UNCHANGED <<dashVars, vtqVars, lastWrite, propVars, npsScore, audioBlob, textFeedback, feedbackType,
                   questionResponses, consent, showOrderInput, submitVars,
                   recVars, inFlight, netCalls>>

setTextFeedback ==
    /\ TextareaRendered
    /\ \E v \in TextValues : textFeedback' = v
    /\ sentPayload' = NoPayload
    /\ UNCHANGED <<dashVars, vtqVars, lastWrite, propVars, npsScore, audioBlob, feedbackType,
                   questionResponses, consent, showOrderInput, localOrderId,
                   submitVars, recVars, inFlight, netCalls>>

setConsent ==
    /\ FormRendered
    /\ \E b \in BOOLEAN : consent' = b
    /\ sentPayload' = NoPayload
    /\ UNCHANGED <<dashVars, vtqVars, lastWrite, propVars, npsScore, audioBlob, textFeedback, feedbackType,
                   questionResponses, showOrderInput, localOrderId, submitVars,
                   recVars, inFlight, netCalls>>

\* The voice/text tabs. Leaving the voice tab unmounts the AudioRecorder;
\* coming back mounts a new one.
setFeedbackType ==
    /\ TabsRendered
    /\ \E type \in {"voice", "text"} :
          /\ feedbackType' = type
          /\ IF RecorderMountedIn(FormRendered, type)
                THEN UNCHANGED <<recState, recResult>>
                ELSE recState' = "idle" /\ recResult' = JsNull
    /\ sentPayload' = NoPayload
    /\ UNCHANGED <<dashVars, vtqVars, lastWrite, propVars, npsScore, audioBlob, textFeedback,
                   questionResponses, consent, showOrderInput, localOrderId,
                   submitVars, nextBlob, inFlight, netCalls>>

(***************************************************************************)
(* The AudioRecorder of the feedback section: start, stop, and a           *)
(* completion callback (onRecordingComplete = setAudioBlob) that yields a  *)
(* blob, or null when nothing was captured or the take is discarded. The   *)
(* callback is an event of its own; an unmounted recorder delivers         *)
(* nothing.                                                                *)
(***************************************************************************)
\* what a stop finalizes: a new blob, or null when nothing was captured
Finalized == { Blob(nextBlob + 1), JsNull }

StartRecording ==
    /\ RecorderMounted
    /\ recState = "idle"
    /\ nextBlob < MaxBlobs
    /\ recState' = "recording"
    /\ sentPayload' = NoPayload
    /\ UNCHANGED <<dashVars, vtqVars, lastWrite, propVars, sessionVars, submitVars, recResult, nextBlob,
                   inFlight, netCalls>>

\* the user's stop, or the recorder's own time limit
StopRecording ==
    /\ RecorderMounted
    /\ recState = "recording"
    /\ recState' = "stopping"
    /\ \E r \in Finalized :
          /\ recResult' = r
          /\ nextBlob' = IF r = JsNull THEN nextBlob ELSE nextBlob + 1
    /\ sentPayload' = NoPayload
    /\ UNCHANGED <<dashVars, vtqVars, lastWrite, propVars, sessionVars, submitVars, inFlight, netCalls>>

\* onRecordingComplete(recResult), i.e. setAudioBlob(recResult)
RecordingComplete ==
    /\ RecorderMounted
    /\ recState = "stopping"
    /\ audioBlob' = recResult
    /\ recState' = IF recResult = JsNull THEN "idle" ELSE "recorded"
    /\ recResult' = JsNull
    /\ UNCHANGED <<dashVars, vtqVars, lastWrite, propVars, npsScore, textFeedback, feedbackType,
                   questionResponses, consent, showOrderInput, localOrderId,
                   submitVars, nextBlob, netVars>>

\* discarding the take: onRecordingComplete(null)
DiscardRecording ==
    /\ RecorderMounted
    /\ recState = "recorded"
    /\ audioBlob' = JsNull
    /\ recState' = "idle"
    /\ sentPayload' = NoPayload
    /\ UNCHANGED <<dashVars, vtqVars, lastWrite, propVars, npsScore, textFeedback, feedbackType,
                   questionResponses, consent, showOrderInput, localOrderId,
                   submitVars, recResult, nextBlob, inFlight, netCalls>>

(***************************************************************************)
(* handleSubmit: the validation gate (lines 48-73).                        *)
(***************************************************************************)
MsgConsent == Str("Please accept the consent notice to submit feedback")
MsgNps == Str("Please provide an NPS score")
MsgOrderId == Str("Please provide an order ID")
MsgRequired == Str("Please answer all required questions")
MsgFailed == Str("Failed to submit feedback. Please try again.")

\* campaignData.questions.some(q => q.required && !questionResponses[q.id])
MissingRequired(responses) ==
    \E q \in QuestionSet : q.required /\ ~Truthy(responses[q.id])

\* the gate with the required-questions rule moved in front of the consent
\* rule
ValidationReasonRequiredFirst ==
    IF IncludeAdditionalQuestions /\ MissingRequired(questionResponses)
        THEN MsgRequired
    ELSE IF ~consent THEN MsgConsent
    ELSE IF IncludeNps /\ ~Truthy(npsScore) THEN MsgNps
    ELSE IF ~Truthy(Str(localOrderId)) /\ showOrderInput /\ RequireOrderId
        THEN MsgOrderId
    ELSE JsNull

\* the gate with the NPS rule testing `npsScore === undefined`, which the
\* initial null passes
ValidationReasonNpsUndefined ==
    IF ~consent THEN MsgConsent
    ELSE IF IncludeNps /\ npsScore = JsUndef THEN MsgNps
    ELSE IF ~Truthy(Str(localOrderId)) /\ showOrderInput /\ RequireOrderId
        THEN MsgOrderId
    ELSE IF IncludeAdditionalQuestions /\ MissingRequired(questionResponses)
        THEN MsgRequired
    ELSE JsNull

\* the gate with the order-ID rule not consulting settings.requireOrderId
ValidationReasonOrderAlwaysRequired ==
    IF ~consent THEN MsgConsent
    ELSE IF IncludeNps /\ ~Truthy(npsScore) THEN MsgNps
    ELSE IF ~Truthy(Str(localOrderId)) /\ showOrderInput
        THEN MsgOrderId
    ELSE IF IncludeAdditionalQuestions /\ MissingRequired(questionResponses)
        THEN MsgRequired
    ELSE JsNull

\* the message of the first rule that fails, in the order of the code; null
\* when every rule passes
ValidationReason ==
    IF ~consent THEN MsgConsent
    ELSE IF IncludeNps /\ ~Truthy(npsScore) THEN MsgNps
    ELSE IF ~Truthy(Str(localOrderId)) /\ showOrderInput /\ RequireOrderId
        THEN MsgOrderId
    ELSE IF IncludeAdditionalQuestions /\ MissingRequired(questionResponses)
        THEN MsgRequired
    ELSE JsNull

(***************************************************************************)
(* handleSubmit: the payload (lines 83-100).                               *)
(***************************************************************************)
\* value.toString() of an NPS score
NumberToString(n) == ToString(n)

\* JSON text of one response value
JsonValue(x) ==
    CASE x.t = "string" -> "\"" \o x.v \o "\""
      [] x.t = "number" -> ToString(x.v)
      [] x.t = "boolean" -> (IF x.v THEN "true" ELSE "false")
      [] OTHER -> "null"

\* Object.keys(questionResponses)
Keys(responses) == { q \in QIds : responses[q] # JsUndef }

\* JSON.stringify(questionResponses): the members of the object, each key
\* with the JSON text of its value (the order of the members is not kept)
JsonStringify(responses) ==
    [t |-> "json",
     members |-> { <<q, JsonValue(responses[q])>> : q \in Keys(responses) }]

\* the channel appended to the form data: `if (voice && audioBlob) ... else
\* if (text && textFeedback) ...`
AudioField(type, blob) ==
    IF type = "voice" /\ Truthy(blob) THEN blob ELSE JsUndef

\* the text channel appended whenever there is text: `if (textFeedback) ...`
TextFieldWheneverText(type, blob, text) ==
    IF Truthy(Str(text)) THEN Str(text) ELSE JsUndef

TextField(type, blob, text) ==
    IF type = "voice" /\ Truthy(blob) THEN JsUndef
    ELSE IF type = "text" /\ Truthy(Str(text)) THEN Str(text)
    ELSE JsUndef

\* the FormData built from the state handleSubmit was created with; a field
\* that is not appended is undefined
\* BuildPayload without the `Object.keys(...).length > 0` test
BuildPayloadAlwaysResponses ==
    [audio |-> AudioField(feedbackType, audioBlob),
     textFeedback |-> TextField(feedbackType, audioBlob, textFeedback),
     orderId |-> Str(localOrderId),
     companyId |-> Str(companyId),
     campaignId |-> IF Truthy(campaignId) THEN campaignId ELSE JsUndef,
     npsScore |-> IF IncludeNps /\ Truthy(npsScore)
                     THEN Str(NumberToString(npsScore.v)) ELSE JsUndef,
     questionResponses |-> JsonStringify(questionResponses)]

BuildPayload ==
    [audio |-> AudioField(feedbackType, audioBlob),
     textFeedback |-> TextField(feedbackType, audioBlob, textFeedback),
     orderId |-> Str(localOrderId),
     companyId |-> Str(companyId),
     campaignId |-> IF Truthy(campaignId) THEN campaignId ELSE JsUndef,
     npsScore |-> IF IncludeNps /\ Truthy(npsScore)
                     THEN Str(NumberToString(npsScore.v)) ELSE JsUndef,
     questionResponses |-> IF Cardinality(Keys(questionResponses)) > 0
                              THEN JsonStringify(questionResponses)
                              ELSE JsUndef]

(***************************************************************************)
(* handleSubmit, up to its await: a click on the submit button.            *)
(***************************************************************************)
\* a rule fails: setError(reason); return
SubmitRejected ==
    /\ SubmitEnabled
    /\ ValidationReason # JsNull
    /\ error' = ValidationReason
    /\ UNCHANGED <<dashVars, vtqVars, lastWrite, propVars, sessionVars, isSubmitting, submitted, recVars,
                   netVars>>

\* every rule passes: setIsSubmitting(true); setError(null);
\* audioRecorderRef.current?.stopRecording(); build the form data; fetch.
\* stopRecording() ends a capture in progress; its result reaches the form
\* through onRecordingComplete, an update handleSubmit's own `audioBlob`
\* (a constant of the render that created it) never shows.
SubmitAccepted ==
    /\ SubmitEnabled
    /\ ValidationReason = JsNull
    /\ netCalls < MaxCalls
    /\ isSubmitting' = TRUE
    /\ error' = JsNull
    /\ IF RecorderMounted /\ recState = "recording"
          THEN /\ recState' = "stopping"
               /\ \E r \in Finalized :
                     /\ recResult' = r
                     /\ nextBlob' = IF r = JsNull THEN nextBlob ELSE nextBlob + 1
          ELSE UNCHANGED recVars
    /\ sentPayload' = BuildPayload
    /\ inFlight' = inFlight + 1
    /\ netCalls' = netCalls + 1
    /\ UNCHANGED <<dashVars, vtqVars, lastWrite, propVars, sessionVars, submitted>>

handleSubmit == SubmitRejected \/ SubmitAccepted

(***************************************************************************)
(* handleSubmit, after its await: the fetch resolves (response.ok), or     *)
(* resolves with a non-success status or rejects (both reach the catch).   *)
(***************************************************************************)
Outcomes == {"ok", "not_ok", "rejected"}

\* the resolution with setIsSubmitting(false) at the end of the try block
\* instead of in a finally
SubmitResolvedWithoutFinally ==
    /\ inFlight > 0
    /\ inFlight' = inFlight - 1
    /\ \E outcome \in Outcomes :
          IF outcome = "ok"
             THEN /\ submitted' = TRUE
                  /\ error' = error
                  \* the thank-you view replaces the form and its recorder
                  /\ recState' = "idle"
                  /\ recResult' = JsNull
                  /\ isSubmitting' = FALSE
             ELSE /\ error' = MsgFailed
                  /\ UNCHANGED <<submitted, recState, recResult, isSubmitting>>
    /\ UNCHANGED <<dashVars, vtqVars, lastWrite, propVars, sessionVars, nextBlob, netCalls, sentPayload>>

SubmitResolved ==
    /\ inFlight > 0
    /\ inFlight' = inFlight - 1
    /\ \E outcome \in Outcomes :
          IF outcome = "ok"
             THEN /\ submitted' = TRUE
                  /\ error' = error
                  \* the thank-you view replaces the form and its recorder
                  /\ recState' = "idle"
                  /\ recResult' = JsNull
             ELSE /\ error' = MsgFailed
                  /\ UNCHANGED <<submitted, recState, recResult>>
    /\ isSubmitting' = FALSE
    /\ UNCHANGED <<dashVars, vtqVars, lastWrite, propVars, sessionVars, nextBlob, netCalls, sentPayload>>

(***************************************************************************)
(* VoiceTextQuestion: construction.                                        *)
(***************************************************************************)
VoiceTextQuestions ==
    { [allowVoice |-> voice, allowText |-> text] :
        voice \in BOOLEAN, text \in BOOLEAN }

InitVTQ ==
    /\ question \in VoiceTextQuestions
    /\ textValue = ""
    /\ responseType = (IF question.allowVoice THEN "voice" ELSE "text")
    /\ qAudioBlob = JsNull
    /\ isRecording = FALSE
    /\ isPlaying = FALSE
    /\ audioPlayerRef = JsNull
    /\ qRecState = "idle"
    /\ qRecResult = JsNull
    /\ qNextBlob = 0
    /\ ownerVoice = JsNull
    /\ ownerCalls = << >>
    /\ lastEvent = "mount"

(***************************************************************************)
(* What VoiceTextQuestion renders.                                         *)
(***************************************************************************)
showTabs == question.allowVoice /\ question.allowText
QTextareaRendered == responseType = "text" /\ question.allowText
VoicePanelRendered(type) == type = "voice" /\ question.allowVoice
\* `!audioBlob ? <AudioRecorder/> : <play and discard buttons>`
QRecorderMountedIn(type, blob) == VoicePanelRendered(type) /\ ~Truthy(blob)
QRecorderMounted == QRecorderMountedIn(responseType, qAudioBlob)
PlaybackRendered == VoicePanelRendered(responseType) /\ Truthy(qAudioBlob)

(***************************************************************************)
(* VoiceTextQuestion: handlers. The owner keeps what the callbacks hand    *)
(* it: onTextChange sets textValue, onVoiceRecording sets ownerVoice.      *)
(***************************************************************************)
\* what the user may leave in the question's textarea
QTextValues == {"", "Great!", "Too slow"}

\* one call of a callback prop
OwnerCall(cb, arg) == [cb |-> cb, arg |-> arg]

\* the tabs: leaving the voice tab unmounts the AudioRecorder
setResponseType ==
    /\ showTabs
    /\ \E type \in {"voice", "text"} :
          /\ responseType' = type
          /\ IF QRecorderMountedIn(type, qAudioBlob)
                THEN UNCHANGED <<qRecState, qRecResult>>
                ELSE qRecState' = "idle" /\ qRecResult' = JsNull
    /\ ownerCalls' = << >>
    /\ lastEvent' = "setResponseType"
    /\ UNCHANGED <<dashVars, formVars, question, textValue, qAudioBlob, isRecording,
                   isPlaying, audioPlayerRef, qNextBlob, ownerVoice>>

onTextChange ==
    /\ QTextareaRendered
    /\ \E v \in QTextValues :
          /\ textValue' = v
          /\ ownerCalls' = << OwnerCall("onTextChange", Str(v)) >>
    /\ lastEvent' = "onTextChange"
    /\ UNCHANGED <<dashVars, formVars, question, responseType, qAudioBlob, isRecording,
                   isPlaying, audioPlayerRef, qRecState, qRecResult,
                   qNextBlob, ownerVoice>>

QStartRecording ==
    /\ QRecorderMounted
    /\ qRecState = "idle"
    /\ qNextBlob < MaxBlobs
    /\ qRecState' = "recording"
    /\ ownerCalls' = << >>
    /\ lastEvent' = "QStartRecording"
    /\ UNCHANGED <<dashVars, formVars, question, textValue, responseType, qAudioBlob,
                   isRecording, isPlaying, audioPlayerRef, qRecResult,
                   qNextBlob, ownerVoice>>

QStopRecording ==
    /\ QRecorderMounted
    /\ qRecState = "recording"
    /\ qRecState' = "stopping"
    /\ \E r \in { Blob(qNextBlob + 1), JsNull } :
          /\ qRecResult' = r
          /\ qNextBlob' = IF r = JsNull THEN qNextBlob ELSE qNextBlob + 1
    /\ ownerCalls' = << >>
    /\ lastEvent' = "QStopRecording"
    /\ UNCHANGED <<dashVars, formVars, question, textValue, responseType, qAudioBlob,
                   isRecording, isPlaying, audioPlayerRef, ownerVoice>>

\* setAudioBlob(blob); onVoiceRecording(blob). With a blob the play and
\* discard buttons replace the AudioRecorder.
handleRecordingComplete ==
    /\ QRecorderMounted
    /\ qRecState = "stopping"
    /\ qAudioBlob' = qRecResult
    /\ ownerVoice' = qRecResult
    /\ qRecState' = "idle"
    /\ qRecResult' = JsNull
    /\ ownerCalls' = << OwnerCall("onVoiceRecording", qRecResult) >>
    /\ lastEvent' = "handleRecordingComplete"
    /\ UNCHANGED <<dashVars, formVars, question, textValue, responseType, isRecording,
                   isPlaying, audioPlayerRef, qNextBlob>>

togglePlayback ==
    /\ PlaybackRendered
    /\ Truthy(qAudioBlob)
    /\ audioPlayerRef' =
          (IF audioPlayerRef = JsNull THEN qAudioBlob ELSE audioPlayerRef)
    /\ isPlaying' = ~isPlaying
    /\ ownerCalls' = << >>
    /\ lastEvent' = "togglePlayback"
    /\ UNCHANGED <<dashVars, formVars, question, textValue, responseType, qAudioBlob,
                   isRecording, qRecState, qRecResult, qNextBlob, ownerVoice>>

\* audioPlayerRef.current.onended
onended ==
    /\ audioPlayerRef # JsNull
    /\ isPlaying
    /\ isPlaying' = FALSE
    /\ ownerCalls' = << >>
    /\ lastEvent' = "onended"
    /\ UNCHANGED <<dashVars, formVars, question, textValue, responseType, qAudioBlob,
                   isRecording, audioPlayerRef, qRecState, qRecResult,
                   qNextBlob, ownerVoice>>

\* discardRecording without the onVoiceRecording(null) call
discardRecordingSilent ==
    /\ PlaybackRendered
    /\ audioPlayerRef' = JsNull
    /\ qAudioBlob' = JsNull
    /\ isPlaying' = FALSE
    /\ ownerVoice' = ownerVoice
    /\ ownerCalls' = << >>
    /\ lastEvent' = "discardRecording"
    /\ UNCHANGED <<dashVars, formVars, question, textValue, responseType, isRecording,
                   qRecState, qRecResult, qNextBlob>>

discardRecording ==
    /\ PlaybackRendered
    /\ audioPlayerRef' = JsNull
    /\ qAudioBlob' = JsNull
    /\ isPlaying' = FALSE
    /\ ownerVoice' = JsNull
    /\ ownerCalls' = << OwnerCall("onVoiceRecording", JsNull) >>
    /\ lastEvent' = "discardRecording"
    /\ UNCHANGED <<dashVars, formVars, question, textValue, responseType, isRecording,
                   qRecState, qRecResult, qNextBlob>>

(***************************************************************************)
(* DashboardPage: construction. The mount effect has called                *)
(* fetchDashboardData and started the 30-second interval.                  *)
(***************************************************************************)
\* bodies the dashboard endpoint may answer with
DashboardResults == {"day 1", "day 2"}
Object(r) == [t |-> "object", v |-> r]

\* messages fetchDashboardData hands to setError: the status check, the
\* `error` member of the body, the Error of a rejected fetch or of a body
\* that is not JSON, and the fallback for a thrown value that is no Error
FetchErrorMessages ==
    {"Failed to fetch dashboard data", "Unauthorized", "Failed to fetch",
     "Failed to load dashboard data"}

\* how a call of fetchDashboardData can end
FetchOutcomes ==
    { [ok |-> TRUE, result |-> Object(r), message |-> ""] :
          r \in DashboardResults }
    \cup { [ok |-> FALSE, result |-> JsNull, message |-> msg] :
          msg \in FetchErrorMessages }

InitDashboard ==
    /\ data = JsNull
    /\ loading = TRUE
    /\ dashError = JsNull
    /\ analysisRunning = FALSE
    /\ pendingFetches = 1
    /\ analysisPhase = "idle"
    /\ lastSettled = "none"
    /\ lastAlert = "none"

\* `if (loading)`, `if (error || !data)`, else the dashboard
DashboardView ==
    IF loading THEN "loading"
    ELSE IF Truthy(dashError) \/ ~Truthy(data) THEN "error"
    ELSE "dashboard"

(***************************************************************************)
(* DashboardPage: handlers.                                                *)
(***************************************************************************)
\* fetchDashboardData after its awaits, with setError(null) on success
fetchDashboardDataClearingError(outcome) ==
    /\ IF outcome.ok
          THEN data' = outcome.result /\ dashError' = JsNull
          ELSE dashError' = Str(outcome.message) /\ data' = data
    /\ loading' = FALSE
    /\ lastSettled' = (IF outcome.ok THEN "ok" ELSE "failed")

\* fetchDashboardData after its awaits: setData(result), or the catch's
\* setError(message); then the finally's setLoading(false)
fetchDashboardData(outcome) ==
    /\ IF outcome.ok
          THEN data' = outcome.result /\ dashError' = dashError
          ELSE dashError' = Str(outcome.message) /\ data' = data
    /\ loading' = FALSE
    /\ lastSettled' = (IF outcome.ok THEN "ok" ELSE "failed")

\* setInterval(fetchDashboardData, 30000) fires
Poll ==
    /\ pendingFetches < MaxPending
    /\ pendingFetches' = pendingFetches + 1
    /\ UNCHANGED <<formVars, vtqVars, data, loading, dashError,
                   analysisRunning, analysisPhase, lastSettled, lastAlert>>

\* a call of the mount effect or of the interval ends
FetchSettled ==
    /\ pendingFetches > 0
    /\ pendingFetches' = pendingFetches - 1
    /\ \E outcome \in FetchOutcomes : fetchDashboardData(outcome)
    /\ UNCHANGED <<formVars, vtqVars, analysisRunning, analysisPhase,
                   lastAlert>>

\* the 'Analyze Feedback Sentiment' button: rendered in the dashboard view,
\* disabled while analysisRunning
runAnalysis ==
    /\ DashboardView = "dashboard"
    /\ ~analysisRunning
    /\ analysisRunning' = TRUE
    /\ analysisPhase' = "posting"
    /\ UNCHANGED <<formVars, vtqVars, data, loading, dashError,
                   pendingFetches, lastSettled, lastAlert>>

\* the POST of runAnalysis ends: with response.ok it goes on to await
\* fetchDashboardData(), else the catch alerts and the finally runs
AnalysisPosted ==
    /\ analysisPhase = "posting"
    /\ \E ok \in BOOLEAN :
          IF ok
             THEN /\ analysisPhase' = "refreshing"
                  /\ UNCHANGED <<analysisRunning, lastAlert>>
             ELSE /\ analysisPhase' = "idle"
                  /\ analysisRunning' = FALSE
                  /\ lastAlert' = "failed"
    /\ UNCHANGED <<formVars, vtqVars, data, loading, dashError,
                   pendingFetches, lastSettled>>

\* the fetchDashboardData awaited by runAnalysis ends (it never throws):
\* the success alert, then setAnalysisRunning(false)
AnalysisRefreshed ==
    /\ analysisPhase = "refreshing"
    /\ \E outcome \in FetchOutcomes : fetchDashboardData(outcome)
    /\ analysisPhase' = "idle"
    /\ analysisRunning' = FALSE
    /\ lastAlert' = "complete"
    /\ UNCHANGED <<formVars, vtqVars, pendingFetches>>

(***************************************************************************)
(* Specifications: the form, and the voice/text question, each with the    *)
(* other component left as constructed.                                    *)
(***************************************************************************)
Init ==
    /\ InitForm
    /\ InitVTQ
    /\ question = [allowVoice |-> TRUE, allowText |-> TRUE]
    /\ InitDashboard

NextForm ==
    \/ AnswerQuestion
    \/ setNpsScore
    \/ setLocalOrderId
    \/ setTextFeedback
    \/ setConsent
    \/ setFeedbackType
    \/ StartRecording
    \/ StopRecording
    \/ RecordingComplete
    \/ DiscardRecording
    \/ handleSubmit
    \/ SubmitResolved

Next == NextForm

Spec == Init /\ [][Next]_vars

InitQuestion ==
    /\ InitForm
    /\ campaignData = JsNull
    /\ orderId = ""
    /\ campaignId = JsUndef
    /\ InitVTQ
    /\ InitDashboard

NextQuestion ==
    \/ setResponseType
    \/ onTextChange
    \/ QStartRecording
    \/ QStopRecording
    \/ handleRecordingComplete
    \/ togglePlayback
    \/ onended
    \/ discardRecording

SpecQuestion == InitQuestion /\ [][NextQuestion]_vars

InitDashboardPage ==
    /\ InitForm
    /\ campaignData = JsNull
    /\ orderId = ""
    /\ campaignId = JsUndef
    /\ InitVTQ
    /\ question = [allowVoice |-> TRUE, allowText |-> TRUE]
    /\ InitDashboard

NextDashboard ==
    \/ Poll
    \/ FetchSettled
    \/ runAnalysis
    \/ AnalysisPosted
    \/ AnalysisRefreshed

SpecDashboard == InitDashboardPage /\ [][NextDashboard]_vars

\* the form with every request to the save-feedback endpoint eventually
\* resolving (fulfilled or rejected)
SpecResolving == Spec /\ WF_vars(SubmitResolved)

(***************************************************************************)
(* A user who completes the form: every step is one of the form's handlers *)
(* filling in something that is still missing, or the submit button, and   *)
(* the endpoint answers with success. Such a user keeps going while some   *)
(* step is left to take.                                                   *)
(***************************************************************************)
GiveConsent == setConsent /\ ~consent /\ consent'

PickNpsScore == setNpsScore /\ npsScore = JsNull

EnterOrderId == setLocalOrderId /\ localOrderId = "" /\ localOrderId' # ""

AnswerUnanswered ==
    /\ AnswerQuestion
    /\ \E q \in QuestionSet :
          /\ ~Truthy(questionResponses[q.id])
          /\ Truthy(questionResponses'[q.id])

RespondedOk == SubmitResolved /\ submitted'

NextCompleting ==
    \/ GiveConsent
    \/ PickNpsScore
    \/ EnterOrderId
    \/ AnswerUnanswered
    \/ handleSubmit
    \/ RespondedOk

SpecCompleting == Init /\ [][NextCompleting]_vars /\ WF_vars(NextCompleting)

(***************************************************************************)
(* Properties.                                                             *)
(***************************************************************************)
\* a step that issues a request to the save-feedback endpoint
IssuesRequest == netCalls' = netCalls + 1

\* C1: in a session that fails both the consent rule and the
\* required-questions rule, the gate's reason is the consent message, and no
\* step from there reports another reason, issues a request or enters
\* submitting.
C1_ConsentReportedFirst ==
    [][ (SubmitEnabled /\ ~consent /\ IncludeAdditionalQuestions
            /\ MissingRequired(questionResponses))
        => /\ ValidationReason = MsgConsent
           /\ error' \in {error, MsgConsent}
           /\ netCalls' = netCalls
           /\ inFlight' = inFlight
           /\ ~isSubmitting' ]_vars

\* C1 witness: a submit was rejected with the consent message while a
\* required question is unanswered too, and no request was issued.
C1_Witness ==
    /\ ~consent
    /\ IncludeAdditionalQuestions
    /\ MissingRequired(questionResponses)
    /\ error = MsgConsent
    /\ netCalls = 0

\* C2 as stated: with includeNps, while npsScore is absent every reported
\* reason is the NPS message.
C2_AlwaysNpsReason ==
    (IncludeNps /\ npsScore = JsNull /\ error # JsNull) => error = MsgNps

\* C2 amended: with includeNps, while npsScore is absent no request is ever
\* issued, and the gate's reason is the NPS message when consent is given
\* and the consent message when it is not; no other reason is reported.
C2_NpsReasonAfterConsent ==
    (IncludeNps /\ npsScore = JsNull)
    => /\ netCalls = 0
       /\ ~isSubmitting
       /\ ValidationReason = (IF consent THEN MsgNps ELSE MsgConsent)
       /\ error \in {JsNull, MsgConsent, MsgNps}

\* C2 witness: consent given, NPS included and absent, and a submit was
\* rejected with the NPS message.
C2_Witness ==
    /\ IncludeNps
    /\ npsScore = JsNull
    /\ consent
    /\ error = MsgNps

\* C3: at most one request is unresolved at any time, the form is submitting
\* exactly while one is, and while it is submitting no step issues a request
\* or replaces the payload.
C3_OneCallWhileSubmitting ==
    /\ [](inFlight <= 1 /\ (isSubmitting <=> inFlight = 1))
    /\ [][ isSubmitting => (netCalls' = netCalls /\ inFlight' <= inFlight) ]_vars

\* C3 witness: the first submit is in flight (its request unresolved).
C3_Witness == isSubmitting /\ inFlight = 1 /\ netCalls = 1

\* a response that counts as an answer by the specification: anything but an
\* absent key or an empty string
CountsAsAnswered(x) == x # JsUndef /\ x # Str("")

\* C4 as stated: when the earlier rules pass, the required-questions rule
\* fails exactly when some required question has an absent key or an empty
\* string.
C4_AnsweredIffTypeConforming ==
    (IncludeAdditionalQuestions /\ ValidationReason \in {MsgRequired, JsNull})
    => (ValidationReason = MsgRequired
          <=> \E q \in QuestionSet :
                 q.required /\ ~CountsAsAnswered(questionResponses[q.id]))

\* C5 as stated: a submit that passes validation while a capture is in
\* progress sends, as its audio field, the result of the stop it forces.
C5_PayloadHasForcedStopBlob ==
    [][ (IssuesRequest /\ recState = "recording")
        => sentPayload'.audio =
              (IF recResult' = JsNull THEN JsUndef ELSE recResult') ]_vars


\* C6 as stated: switching from voice to text while the recorder is
\* recording leaves the recorder idle and the owner's voice value absent, in
\* the form's feedback section and in VoiceTextQuestion.
C6_SwitchWhileRecordingClearsVoice ==
    [][ /\ (feedbackType = "voice" /\ recState = "recording"
                /\ feedbackType' = "text")
            => (recState' = "idle" /\ audioBlob' = JsNull)
        /\ (responseType = "voice" /\ qRecState = "recording"
                /\ responseType' = "text")
            => (qRecState' = "idle" /\ ownerVoice' = JsNull) ]_vars

\* the top-level fields of the session
topLevelFields ==
    <<localOrderId, npsScore, textFeedback, audioBlob, feedbackType, consent>>

\* C7: questionResponses holds, for every question id, the last value handed
\* to handleQuestionResponse for it (nothing if none was); a step that
\* changes questionResponses changes one key and no top-level field, and a
\* step that changes a top-level field leaves questionResponses alone.
C7_LastWritePerQuestion ==
    /\ [](questionResponses = lastWrite)
    /\ [][ /\ questionResponses' # questionResponses
               => /\ \E q \in QIds : \A k \in QIds \ {q} :
                        questionResponses'[k] = questionResponses[k]
                  /\ UNCHANGED topLevelFields
           /\ topLevelFields' # topLevelFields
               => questionResponses' = questionResponses ]_vars

\* C7 witness: two questions answered, the second with a falsy value, after
\* top-level fields were set.
C7_Witness ==
    /\ questionResponses["q1"] = Str("B")
    /\ questionResponses["q2"] = Bool(FALSE)
    /\ npsScore # JsNull
    /\ consent

\* C8: the payload of every request carries at most one of audio and
\* textFeedback: audio only in voice mode with a blob held (and then that
\* blob), textFeedback only in text mode with a non-empty text (and then
\* that text).
C8_OneChannelInPayload ==
    [][ IssuesRequest
        => /\ ~(sentPayload'.audio # JsUndef /\ sentPayload'.textFeedback # JsUndef)
           /\ sentPayload'.audio # JsUndef
               => /\ feedbackType = "voice"
                  /\ audioBlob # JsNull
                  /\ sentPayload'.audio = audioBlob
           /\ sentPayload'.textFeedback # JsUndef
               => /\ feedbackType = "text"
                  /\ textFeedback # ""
                  /\ sentPayload'.textFeedback = Str(textFeedback) ]_vars

\* C8 witness: a request carrying audio was sent while the text channel
\* still holds a text.
C8_Witness ==
    /\ sentPayload # NoPayload
    /\ sentPayload.audio # JsUndef
    /\ sentPayload.textFeedback = JsUndef
    /\ textFeedback # ""

\* C9 as stated: a request that fails leaves submitting with the generic
\* message and the session fields untouched; only a submit issues a request;
\* and a submit repeated after the failure, with no edit in between, builds
\* the payload of the failed request again.
C9_RetryBuildsSamePayload ==
    [][ /\ (isSubmitting /\ ~isSubmitting' /\ ~submitted')
            => (error' = MsgFailed /\ UNCHANGED sessionVars)
        /\ netCalls' # netCalls => (SubmitEnabled /\ isSubmitting')
        /\ (error = MsgFailed /\ sentPayload # NoPayload /\ IssuesRequest)
            => sentPayload' = sentPayload ]_vars

C11_ScenarioPayload ==
    [audio |-> JsUndef,
     textFeedback |-> Str("Great!"),
     orderId |-> Str("ORD-1"),
     companyId |-> Str("acme"),
     campaignId |-> campaignId,
     npsScore |-> Str("9"),
     questionResponses |->
         [t |-> "json", members |-> { <<"q1", "\"B\"">> }]]

\* C11: every request carries orderId and companyId; it carries campaignId
\* only when one was supplied, npsScore (as its decimal string) only when
\* the campaign includes NPS and a score is present, and questionResponses
\* only when some question has a response. In the session orderId = ORD-1,
\* npsScore = 9, questionResponses = {q1: B}, text mode with "Great!" and
\* consent given, the request carries exactly those values and no audio.
C11_PayloadFields ==
    [][ IssuesRequest =>
        /\ ValidationReason = JsNull
        /\ sentPayload'.orderId = Str(localOrderId)
        /\ sentPayload'.companyId = Str("acme")
        /\ sentPayload'.campaignId = campaignId
        /\ (sentPayload'.npsScore # JsUndef)
              <=> (IncludeNps /\ npsScore # JsNull)
        /\ (IncludeNps /\ npsScore = Num(1)) => sentPayload'.npsScore = Str("1")
        /\ (IncludeNps /\ npsScore = Num(9)) => sentPayload'.npsScore = Str("9")
        /\ (IncludeNps /\ npsScore = Num(10)) => sentPayload'.npsScore = Str("10")
        /\ (sentPayload'.questionResponses # JsUndef)
              <=> (\E q \in QIds : questionResponses[q] # JsUndef)
        /\ ( /\ campaignData = ScenarioCampaign
             /\ localOrderId = "ORD-1"
             /\ npsScore = Num(9)
             /\ questionResponses = [q \in QIds |->
                                       IF q = "q1" THEN Str("B") ELSE JsUndef]
             /\ feedbackType = "text"
             /\ textFeedback = "Great!"
             /\ consent )
           => sentPayload' = C11_ScenarioPayload ]_vars

\* C11 witness: the request of the scenario session has been issued.
C11_Witness ==
    /\ campaignData = ScenarioCampaign
    /\ netCalls >= 1
    /\ feedbackType = "text"
    /\ sentPayload = C11_ScenarioPayload

\* the order-ID rule as the claim words it: the setting is on, no order id
\* was supplied at creation, and the order id is empty
OrderIdMissing == RequireOrderId /\ orderId = "" /\ localOrderId = ""

\* C12: with consent given and the NPS rule satisfied, the gate's reason is
\* the order-ID message exactly when settings.requireOrderId is true, no
\* order id was supplied at creation and the order id is empty; a submit in
\* such a state issues no request and reports no other reason, and otherwise
\* no step reports the order-ID message. With an order id supplied at
\* creation the order-ID message is never the reason nor reported.
C12_OrderIdRule ==
    /\ []( (consent /\ (IncludeNps => npsScore # JsNull))
            => (ValidationReason = MsgOrderId <=> OrderIdMissing) )
    /\ []( orderId # "" => (ValidationReason # MsgOrderId /\ error # MsgOrderId) )
    /\ [][ (consent /\ (IncludeNps => npsScore # JsNull))
           => /\ (SubmitEnabled /\ OrderIdMissing)
                  => /\ netCalls' = netCalls
                     /\ ~isSubmitting'
                     /\ error' \in {error, MsgOrderId}
              /\ ~OrderIdMissing
                  => (error' = error \/ error' # MsgOrderId) ]_vars

\* C12 witness: consent given, the NPS rule satisfied, the order id required
\* and empty, and a submit was rejected with the order-ID message without a
\* request.
C12_Witness ==
    /\ consent
    /\ IncludeNps => npsScore # JsNull
    /\ OrderIdMissing
    /\ error = MsgOrderId
    /\ netCalls = 0

\* the value the owner holds for the prompt: the text and the voice blob
ownerValue == <<textValue, ownerVoice>>

\* C13 as stated: the owner never holds both a non-empty text and a voice
\* blob for the prompt, and every step that changes the value the owner
\* holds makes exactly one callback.
C13_OneLiveValue ==
    /\ [] ~(textValue # "" /\ ownerVoice # JsNull)
    /\ [][ ownerValue' # ownerValue => Len(ownerCalls') = 1 ]_vars

\* C16: discarding leaves the question without a local blob, with playback
\* off and a fresh idle recorder, and makes exactly one callback,
\* onVoiceRecording(null); play / pause (and the end of the audio) changes
\* only the playing flag and the player, never the local blob, the value the
\* owner holds, or anything reported to the owner.
C16_DiscardAndPlayback ==
    [][ /\ lastEvent' = "discardRecording"
            => /\ qAudioBlob # JsNull
               /\ qAudioBlob' = JsNull
               /\ ~isPlaying'
               /\ audioPlayerRef' = JsNull
               /\ qRecState' = "idle"
               /\ ownerVoice' = JsNull
               /\ ownerCalls' = << [cb |-> "onVoiceRecording", arg |-> JsNull] >>
        /\ lastEvent' \in {"togglePlayback", "onended"}
            => /\ isPlaying' = ~isPlaying
               /\ qAudioBlob' = qAudioBlob
               /\ ownerValue' = ownerValue
               /\ ownerCalls' = << >>
               /\ UNCHANGED <<responseType, qRecState, qRecResult>>
        /\ (qAudioBlob # JsNull /\ qAudioBlob' = JsNull)
            => lastEvent' = "discardRecording" ]_vars

\* C16 witness: a finalized recording has been discarded.
C16_Witness ==
    /\ lastEvent = "discardRecording"
    /\ qNextBlob >= 1
    /\ qAudioBlob = JsNull
    /\ ownerVoice = JsNull
    /\ ~isPlaying

\* the schema has a question of a type the form renders nothing for
HasUnrenderedQuestion ==
    \E q \in QuestionSet : q.type \notin RenderedTypes

\* C14 as stated: whatever the required flag of a question of an unrendered
\* type, a user who completes the form passes validation and reaches a
\* successful submission.
C14_UnrenderedQuestionSkipped ==
    HasUnrenderedQuestion => <>submitted

\* C15: provided every request eventually resolves, a form that is
\* submitting eventually is not: it is then either submitted or rendered
\* with the submit button enabled.
C15_LeavesSubmitting ==
    isSubmitting ~> (~isSubmitting /\ (submitted \/ SubmitEnabled))

\* C15 witness: a request failed and the form is editable again, with the
\* failure message and the submit button enabled.
C15_Witness ==
    /\ netCalls >= 1
    /\ inFlight = 0
    /\ error = MsgFailed
    /\ ~isSubmitting
    /\ ~submitted
    /\ SubmitEnabled

\* C17: once dashError is set no step clears it, and while it is set the page
\* shows the error view, whatever later fetches bring; and once loading is
\* false no step sets it again.
C17_ErrorSticky ==
    /\ [][ /\ dashError # JsNull => dashError' # JsNull
           /\ ~loading => ~loading' ]_vars
    /\ [](dashError # JsNull => DashboardView = "error")

\* C17 witness: a fetch failed, a later fetch succeeded and set data, and the
\* page still shows the error view.
C17_Witness ==
    /\ dashError # JsNull
    /\ lastSettled = "ok"
    /\ data # JsNull
    /\ ~loading
    /\ DashboardView = "error"

=============================================================================
